---- MODULE Spec2Model ----
(***************************************************************************)
(* Model of vite-multi-page-html-generator-plugin (v2): the plugin object  *)
(* returned by viteMultiPageHtmlGeneratorPlugin(options) and its config()  *)
(* hook, with the helpers validateHtmlRoot, validateRoot,                  *)
(* readDirectoryFiles, isExcluded, filterHtmlFiles, createEntryMapping and *)
(* discoverHtmlFiles.                                                      *)
(*                                                                         *)
(* Strings are sequences of one-character strings, so that startsWith,     *)
(* endsWith, replace(/\.html$/, ''), the default sort order and            *)
(* RegExp.prototype.test are computed character by character.  Paths are   *)
(* sequences of segments (POSIX), each segment a string.                   *)
(***************************************************************************)
EXTENDS Naturals, Sequences, FiniteSets, Bags

(***************************************************************************)
(* Bounds of the model.                                                    *)
(***************************************************************************)
\* largest number of files in the directories of the model
MaxFiles == 2
\* largest number of patterns in the exclude option
MaxExclude == 2
\* largest number of config() calls on one plugin instance
MaxCalls == 2

\* changes of the file system made once config() has been called
MaxChanges == 1

(***************************************************************************)
(* Characters and strings.                                                 *)
(***************************************************************************)
\* UTF-16 code unit of the characters the model uses
CharCode(c) ==
  CASE c = "." -> 46
    [] c = "/" -> 47
    [] c = "A" -> 65
    [] c = "_" -> 95
    [] c = "a" -> 97
    [] c = "b" -> 98
    [] c = "c" -> 99
    [] c = "h" -> 104
    [] c = "l" -> 108
    [] c = "m" -> 109
    [] c = "n" -> 110
    [] c = "o" -> 111
    [] c = "p" -> 112
    [] c = "r" -> 114
    [] c = "s" -> 115
    [] c = "t" -> 116
    [] c = "u" -> 117
    [] c = "x" -> 120

\* String.prototype.startsWith
StartsWith(s, p) ==
  /\ Len(p) <= Len(s)
  /\ \A i \in 1..Len(p) : s[i] = p[i]

\* String.prototype.endsWith
EndsWith(s, p) ==
  /\ Len(p) <= Len(s)
  /\ \A i \in 1..Len(p) : s[Len(s) - Len(p) + i] = p[i]

DotHtml == <<".", "h", "t", "m", "l">>

\* file.replace(/\.html$/, '')
StripHtml(file) ==
  IF EndsWith(file, DotHtml) THEN SubSeq(file, 1, Len(file) - Len(DotHtml)) ELSE file

\* a < b in the order of the default Array.prototype.sort comparator
\* (code unit by code unit, a proper prefix first)
RECURSIVE StrLess(_, _)
StrLess(a, b) ==
  IF a = <<>> THEN b # <<>>
  ELSE IF b = <<>> THEN FALSE
  ELSE IF CharCode(Head(a)) # CharCode(Head(b)) THEN CharCode(Head(a)) < CharCode(Head(b))
  ELSE StrLess(Tail(a), Tail(b))

\* insertion of one string into a sorted sequence of strings
RECURSIVE InsertSorted(_, _)
InsertSorted(s, sorted) ==
  IF sorted = <<>> THEN <<s>>
  ELSE IF StrLess(s, Head(sorted)) THEN <<s>> \o sorted
  ELSE <<Head(sorted)>> \o InsertSorted(s, Tail(sorted))

\* htmlFiles.sort()
RECURSIVE SortFiles(_)
SortFiles(files) ==
  IF files = <<>> THEN <<>>
  ELSE InsertSorted(Head(files), SortFiles(Tail(files)))

(***************************************************************************)
(* Paths (path.resolve, path.relative, path.isAbsolute on POSIX).          *)
(***************************************************************************)
DotDot == <<".", ".">>
Dot == <<".">>

\* normalisation of a segment list, applied left to right onto a base
RECURSIVE NormalizeOnto(_, _)
NormalizeOnto(base, segs) ==
  IF segs = <<>> THEN base
  ELSE LET s == Head(segs)
           nb == IF s = Dot \/ s = <<>> THEN base
                 ELSE IF s = DotDot
                      THEN (IF base = <<>> THEN base ELSE SubSeq(base, 1, Len(base) - 1))
                      ELSE Append(base, s)
       IN NormalizeOnto(nb, Tail(segs))

\* resolve(projectRoot, userPath): an absolute userPath replaces the base
PathResolve(projectRoot, userPath) ==
  IF userPath.abs THEN NormalizeOnto(<<>>, userPath.segs)
  ELSE NormalizeOnto(projectRoot, userPath.segs)

\* length of the longest common prefix of two segment lists
RECURSIVE CommonLen(_, _)
CommonLen(a, b) ==
  IF a = <<>> \/ b = <<>> THEN 0
  ELSE IF Head(a) = Head(b) THEN 1 + CommonLen(Tail(a), Tail(b))
  ELSE 0

\* relative(from, to) as a list of segments: one '..' per remaining segment
\* of from, then the remaining segments of to
PathRelative(from, to) ==
  LET k == CommonLen(from, to)
  IN [i \in 1..(Len(from) - k) |-> DotDot] \o SubSeq(to, k + 1, Len(to))

\* the string of a relative segment list: segments joined by '/'
RECURSIVE JoinSegs(_)
JoinSegs(segs) ==
  IF segs = <<>> THEN <<>>
  ELSE IF Len(segs) = 1 THEN Head(segs)
  ELSE Head(segs) \o <<"/">> \o JoinSegs(Tail(segs))

\* isAbsolute(p) on a string
IsAbsolute(str) == str # <<>> /\ str[1] = "/"

(***************************************************************************)
(* validateHtmlRoot.                                                       *)
(*                                                                         *)
(* The htmlRoot option is a record: set (the option is given), abs (the    *)
(* string starts with '/'), segs (its segments).  The empty string is      *)
(* [set |-> TRUE, abs |-> FALSE, segs |-> <<>>].                           *)
(***************************************************************************)
\* !userPath : undefined or the empty string
IsFalsyPath(userPath) == ~userPath.set \/ (~userPath.abs /\ userPath.segs = <<>>)

\* the check without its startsWith('..') half
IsOutsideCheckAbsOnly(relativePath) == IsAbsolute(relativePath)

\* relativePath.startsWith('..') || isAbsolute(relativePath)
IsOutsideCheck(relativePath) ==
  StartsWith(relativePath, DotDot) \/ IsAbsolute(relativePath)

\* the first line of the message of the error validateHtmlRoot throws
SecurityError == "Security: htmlRoot is outside project root"

\* validateHtmlRoot(userPath, projectRoot): threw tells that the Security
\* error was thrown, path is the returned absolute path otherwise
validateHtmlRoot(userPath, projectRoot) ==
  IF IsFalsyPath(userPath) THEN [threw |-> FALSE, path |-> projectRoot]
  ELSE LET absolutePath == PathResolve(projectRoot, userPath)
           relativePath == JoinSegs(PathRelative(projectRoot, absolutePath))
       IN IF IsOutsideCheck(relativePath)
          THEN [threw |-> TRUE, path |-> absolutePath]
          ELSE [threw |-> FALSE, path |-> absolutePath]

(***************************************************************************)
(* Exclusion patterns.                                                     *)
(*                                                                         *)
(* A pattern is a record: isRegExp, text, anchored, flags.  A string       *)
(* pattern is its text.  A RegExp is /text/flags or /^text/flags with text *)
(* a literal; flags is a subset of {"g", "i", "y"}.  A RegExp object keeps *)
(* its lastIndex between calls of test.                                    *)
(***************************************************************************)
\* canonical form of a character under the i flag
Canonicalize(c) == IF c = "a" THEN "A" ELSE c

\* the pattern of re matches s with the match starting at index p (0-based)
MatchAt(re, s, p) ==
  /\ re.anchored => p = 0
  /\ p + Len(re.text) <= Len(s)
  /\ \A j \in 1..Len(re.text) :
       IF "i" \in re.flags
       THEN Canonicalize(s[p + j]) = Canonicalize(re.text[j])
       ELSE s[p + j] = re.text[j]

\* RegExp.prototype.test (RegExpBuiltinExec): res is the result, lastIndex
\* the value of re.lastIndex afterwards
RegExpTest(re, s, lastIndex) ==
  LET stateful == ("g" \in re.flags) \/ ("y" \in re.flags)
      start == IF stateful THEN lastIndex ELSE 0
      cands == IF "y" \in re.flags
               THEN {p \in {start} : p <= Len(s) /\ MatchAt(re, s, p)}
               ELSE {p \in start..Len(s) : MatchAt(re, s, p)}
  IN IF cands = {}
     THEN [lastIndex |-> IF stateful THEN 0 ELSE lastIndex, res |-> FALSE]
     ELSE LET p == CHOOSE q \in cands : \A r \in cands : q <= r
          IN [lastIndex |-> IF stateful THEN p + Len(re.text) ELSE lastIndex,
              res |-> TRUE]

\* String.prototype.includes
Includes(str, sub) ==
  \E p \in 0..Len(str) :
    /\ p + Len(sub) <= Len(str)
    /\ \A j \in 1..Len(sub) : str[p + j] = sub[j]

\* the callback with a string pattern matched as a substring
PatternHitsSubstring(pattern, file, lastIndex) ==
  IF pattern.isRegExp THEN RegExpTest(pattern, file, lastIndex)
  ELSE [lastIndex |-> lastIndex, res |-> Includes(file, pattern.text)]

\* the callback of exclude.some in isExcluded, for one pattern
PatternHits(pattern, file, lastIndex) ==
  IF pattern.isRegExp THEN RegExpTest(pattern, file, lastIndex)
  ELSE [lastIndex |-> lastIndex,
        res |-> file = pattern.text \/ StripHtml(file) = pattern.text]

\* isExcluded(file, exclude): exclude.some stops at the first pattern that
\* hits; li is the sequence of the patterns' lastIndex values
RECURSIVE isExcludedFrom(_, _, _, _)
isExcludedFrom(file, exclude, li, k) ==
  IF k > Len(exclude) THEN [li |-> li, excluded |-> FALSE]
  ELSE LET h == PatternHits(exclude[k], file, li[k])
           nli == [li EXCEPT ![k] = h.lastIndex]
       IN IF h.res THEN [li |-> nli, excluded |-> TRUE]
          ELSE isExcludedFrom(file, exclude, nli, k + 1)

isExcluded(file, exclude, li) == isExcludedFrom(file, exclude, li, 1)

\* the test without its !file.startsWith('.') part
IsCandidateAnyHtml(file) == EndsWith(file, DotHtml)

\* file.endsWith('.html') && !file.startsWith('.')
IsCandidate(file) == EndsWith(file, DotHtml) /\ ~StartsWith(file, Dot)

\* filterHtmlFiles(files, exclude): the names kept, in listing order;
\* isExcluded is evaluated only for names that pass the first two tests
RECURSIVE filterHtmlFiles(_, _, _)
filterHtmlFiles(files, exclude, li) ==
  IF files = <<>> THEN [li |-> li, kept |-> <<>>]
  ELSE LET file == Head(files)
       IN IF IsCandidate(file)
          THEN LET x == isExcluded(file, exclude, li)
                   rest == filterHtmlFiles(Tail(files), exclude, x.li)
               IN [li |-> rest.li,
                   kept |-> IF x.excluded THEN rest.kept ELSE <<file>> \o rest.kept]
          ELSE filterHtmlFiles(Tail(files), exclude, li)

(***************************************************************************)
(* createEntryMapping.                                                     *)
(*                                                                         *)
(* The entries object is the sequence of its own properties in insertion   *)
(* order, each [name, path]; it is created by the literal {} and so        *)
(* inherits the properties of Object.prototype.                            *)
(***************************************************************************)
\* the property names every object literal inherits from Object.prototype;
\* entries[name] is truthy for each of them
ObjectPrototypeKeys ==
  { <<"c","o","n","s","t","r","u","c","t","o","r">>,
    <<"t","o","S","t","r","i","n","g">>,
    <<"t","o","L","o","c","a","l","e","S","t","r","i","n","g">>,
    <<"v","a","l","u","e","O","f">>,
    <<"h","a","s","O","w","n","P","r","o","p","e","r","t","y">>,
    <<"i","s","P","r","o","t","o","t","y","p","e","O","f">>,
    <<"p","r","o","p","e","r","t","y","I","s","E","n","u","m","e","r","a","b","l","e">>,
    <<"_","_","p","r","o","t","o","_","_">>,
    <<"_","_","d","e","f","i","n","e","G","e","t","t","e","r","_","_">>,
    <<"_","_","d","e","f","i","n","e","S","e","t","t","e","r","_","_">>,
    <<"_","_","l","o","o","k","u","p","G","e","t","t","e","r","_","_">>,
    <<"_","_","l","o","o","k","u","p","S","e","t","t","e","r","_","_">> }

\* entries has an own property called name
HasOwnEntry(entries, name) == \E i \in 1..Len(entries) : entries[i].name = name

\* the value of the own property called name
EntryPath(entries, name) ==
  LET i == CHOOSE j \in 1..Len(entries) : entries[j].name = name
  IN entries[i].path

\* one console call
LogLine(level, msg, name, file, names) ==
  [file |-> file, name |-> name, level |-> level, msg |-> msg, names |-> names]

\* entryNameFormatter(name, file) for the formatters of the model; kind is
\* "string" when the call returns a string (str), "other" when it returns
\* something else
ApplyFormatter(fmt, name, file) ==
  CASE fmt = "identity" -> [str |-> name, kind |-> "string"]
    [] fmt = "prefix" -> [str |-> <<"p">> \o name, kind |-> "string"]
    [] fmt = "constant" -> [str |-> <<"s">>, kind |-> "string"]
    [] fmt = "toString" ->
         [str |-> <<"t","o","S","t","r","i","n","g">>, kind |-> "string"]
    [] fmt = "file" -> [str |-> file, kind |-> "string"]
    [] fmt = "nullOnA" ->
         IF name = <<"a">> THEN [str |-> <<>>, kind |-> "other"]
         ELSE [str |-> name, kind |-> "string"]

\* typeof entryNameFormatter === 'function'
IsFunction(fmt) == fmt # "undefined"

\* the arguments of one entryNameFormatter(name, file) call; the second is
\* the element of htmlFiles as it stands, a one-segment relative path
FormatterArgs(base, file, root) == [file |-> <<file>>, name |-> base]

\* the body of the forEach callback of createEntryMapping for one file;
\* acc0 is [entries, logs, fcalls]
EntryStep(acc0, file, root, fmt, verbose) ==
  LET base == StripHtml(file)
      acc == IF IsFunction(fmt)
             THEN [acc0 EXCEPT !.fcalls = Append(@, FormatterArgs(base, file, root))]
             ELSE acc0
      r == IF IsFunction(fmt) THEN ApplyFormatter(fmt, base, file)
           ELSE [str |-> base, kind |-> "string"]
      name == r.str
  IN IF r.kind # "string"
     THEN [acc EXCEPT !.logs = Append(@,
             LogLine("warn", "entryNameFormatter must return a string", <<>>, file, <<>>))]
     ELSE IF HasOwnEntry(acc.entries, name)
     THEN [acc EXCEPT !.logs = Append(@,
             LogLine("warn", "Duplicate entry name", name, file,
                     <<EntryPath(acc.entries, name)[Len(EntryPath(acc.entries, name))]>>))]
     ELSE IF name \in ObjectPrototypeKeys
     \* entries[name] is the inherited value: truthy, and without split, so
     \* building the warning throws a TypeError that the catch logs
     THEN [acc EXCEPT !.logs = Append(@,
             LogLine("error", "Error processing file", <<>>, file, <<>>))]
     ELSE [entries |-> Append(acc.entries,
                              [path |-> NormalizeOnto(root, <<file>>),
                               name |-> name]),
           fcalls |-> acc.fcalls,
           logs |-> IF verbose
                    THEN Append(acc.logs, LogLine("log", "entry", name, file, <<>>))
                    ELSE acc.logs]

RECURSIVE EntryLoop(_, _, _, _, _)
EntryLoop(acc, files, root, fmt, verbose) ==
  IF files = <<>> THEN acc
  ELSE EntryLoop(EntryStep(acc, Head(files), root, fmt, verbose),
                 Tail(files), root, fmt, verbose)

\* createEntryMapping(htmlFiles, root, entryNameFormatter, verbose)
createEntryMapping(htmlFiles, root, fmt, verbose) ==
  EntryLoop([entries |-> <<>>, fcalls |-> <<>>, logs |-> <<>>],
            SortFiles(htmlFiles), root, fmt, verbose)

(***************************************************************************)
(* discoverHtmlFiles, with validateRoot and readDirectoryFiles.            *)
(*                                                                         *)
(* A call finds the directory in one of three states: "missing" (access    *)
(* rejects), "unreadable" (access resolves, readdir rejects: the directory *)
(* cannot be listed, or was removed in between) and "listed" (readdir      *)
(* resolves to the listing it finds at that moment).                       *)
(***************************************************************************)
\* validateRoot(root): root is a non-empty string here
validateRoot(root, dirState) == [valid |-> dirState # "missing"]

\* readDirectoryFiles(root): the listing, or [] after logging the error
readDirectoryFiles(dirState, dirFiles) ==
  IF dirState = "listed"
  THEN [files |-> dirFiles, logs |-> <<>>]
  ELSE [files |-> <<>>,
        logs |-> <<LogLine("error", "Error reading directory", <<>>, <<>>, <<>>)>>]

\* discoverHtmlFiles(root, {exclude, entryNameFormatter, verbose}): isNull
\* tells that null is returned; scanned that readdir was called on root;
\* htmlFiles is the result of filterHtmlFiles; li the lastIndex values
discoverHtmlFiles(root, exclude, fmt, verbose, dirState, dirFiles, li) ==
  IF ~validateRoot(root, dirState).valid
  THEN [li |-> li, entries |-> <<>>, fcalls |-> <<>>,
        logs |-> <<LogLine("warn", "Root directory does not exist", <<>>, <<>>, <<>>)>>,
        htmlFiles |-> <<>>, isNull |-> TRUE, scanned |-> FALSE]
  ELSE LET rd == readDirectoryFiles(dirState, dirFiles)
       IN IF Len(rd.files) = 0
          THEN [li |-> li, entries |-> <<>>, fcalls |-> <<>>,
                logs |-> rd.logs, htmlFiles |-> <<>>, isNull |-> TRUE, scanned |-> TRUE]
          ELSE LET f == filterHtmlFiles(rd.files, exclude, li)
               IN IF Len(f.kept) = 0
                  THEN [li |-> f.li, entries |-> <<>>, fcalls |-> <<>>,
                        logs |-> rd.logs, htmlFiles |-> <<>>, isNull |-> TRUE,
                        scanned |-> TRUE]
                  ELSE LET m == createEntryMapping(f.kept, root, fmt, verbose)
                           found == IF verbose
                                    THEN <<LogLine("log", "Found HTML files", <<>>, <<>>,
                                                   f.kept)>>
                                    ELSE <<>>
                       IN [li |-> f.li, entries |-> m.entries, fcalls |-> m.fcalls,
                           logs |-> rd.logs \o found \o m.logs, htmlFiles |-> f.kept,
                           isNull |-> FALSE, scanned |-> TRUE]

(***************************************************************************)
(* Values of the model.                                                    *)
(***************************************************************************)
\* process.cwd()
Cwd == <<<<"w">>>>

NoPath == [segs |-> <<>>, abs |-> FALSE, set |-> FALSE]
RelPath(segs) == [segs |-> segs, abs |-> FALSE, set |-> TRUE]
AbsPath(segs) == [segs |-> segs, abs |-> TRUE, set |-> TRUE]

\* values of config.root: absent, or an absolute normalised path
ConfigRoots == { NoPath, AbsPath(<<<<"p">>>>) }

\* values of the htmlRoot option: undefined, '', '.', 's', '../x', '/x',
\* '/p/s', '..a', 's/../..', 's/..a'
HtmlRoots ==
  { NoPath,
    RelPath(<<>>),
    RelPath(<<Dot>>),
    RelPath(<<<<"s">>>>),
    RelPath(<<DotDot, <<"x">>>>),
    AbsPath(<<<<"x">>>>),
    AbsPath(<<<<"p">>, <<"s">>>>),
    RelPath(<<<<".", ".", "a">>>>),
    RelPath(<<<<"s">>, DotDot, DotDot>>),
    RelPath(<<<<"s">>, <<".", ".", "a">>>>) }

\* names a directory listing may hold: 'a.html', 'ab.html', '.a.html',
\* 'a.txt', 'constructor.html'
FileNames ==
  { <<"a">> \o DotHtml,
    <<"a", "b">> \o DotHtml,
    <<".", "a">> \o DotHtml,
    <<"a", ".", "t", "x", "t">>,
    <<"c","o","n","s","t","r","u","c","t","o","r">> \o DotHtml }

StringPattern(text) ==
  [anchored |-> FALSE, text |-> text, flags |-> {}, isRegExp |-> FALSE]
RegExpPattern(anchored, text, flags) ==
  [anchored |-> anchored, text |-> text, flags |-> flags, isRegExp |-> TRUE]

\* patterns of the exclude option: 'a', 'ab.html', /^a/, /^a/g
Patterns ==
  { StringPattern(<<"a">>),
    StringPattern(<<"a", "b">> \o DotHtml),
    RegExpPattern(TRUE, <<"a">>, {}),
    RegExpPattern(TRUE, <<"a">>, {"g"}) }

\* sequences without repetition of at most n elements of S
RECURSIVE SeqsUpTo(_, _)
SeqsUpTo(S, n) ==
  IF n = 0 THEN {<<>>}
  ELSE LET shorter == SeqsUpTo(S, n - 1)
       IN shorter \cup
          { Append(q, x) : q \in {r \in shorter : Len(r) = n - 1},
                           x \in S }

NoRepeat(q) == \A i, j \in 1..Len(q) : i # j => q[i] # q[j]

ExcludeLists == { q \in SeqsUpTo(Patterns, MaxExclude) : NoRepeat(q) }

Formatters ==
  {"undefined", "identity", "prefix", "constant", "toString", "file", "nullOnA"}

\* a value of the caller's rollupOptions: an opaque value, or a mapping of
\* entry names to files
Opaque(id) == [entries |-> <<>>, kind |-> "opaque", id |-> id]
Mapping(entries) == [entries |-> entries, kind |-> "mapping", id |-> 0]

\* input: {custom: 'custom-entry.html'}
CustomInput ==
  Mapping(<<[path |-> <<<<"c">> \o DotHtml>>, name |-> <<"c">>]>>)

\* values of config.build?.rollupOptions: undefined, {output}, and
\* {input, output}
RollupOptionsValues ==
  { [set |-> FALSE, obj |-> [k \in {} |-> Opaque(1)]],
    [set |-> TRUE, obj |-> [k \in {"output"} |-> Opaque(1)]],
    [set |-> TRUE,
     obj |-> [k \in {"input", "output"} |->
                IF k = "input" THEN CustomInput ELSE Opaque(1)]] }

(***************************************************************************)
(* The plugin instance, the directory it scans and its config() hook.      *)
(***************************************************************************)
VARIABLES
  options,    \* the options the plugin was created with
  userRoot,   \* root of the Vite config of the project the plugin is used in:
              \* every call of the hook is given it
  lastIndex,  \* lastIndex of each pattern of options.exclude (0 for strings)
  dirs,       \* the file system: for each directory its state ("missing",
              \* "unreadable" or "listed") and its listing, in the order
              \* readdir returns it
  cwdGone,    \* the directory the process works in has been removed
  cwdCached,  \* process.cwd() has returned before: Node answers from its cache
  changes,    \* number of file system changes made since the first config() call
  calls,      \* number of config() calls made
  pending,    \* the bag of calls in flight: where each waits, its config,
              \* its root and the result of its system call that is not yet
              \* delivered
  settled,    \* number of config() calls that have resolved or rejected
  config,     \* argument of the call that settled last
  outcome,    \* of that call: "idle", "rejected", "empty" ({}) or "build"
  error,      \* message of the error that call rejected with, or ""
  entries,    \* what discoverHtmlFiles returned in that call (<<>> for null)
  returned,   \* build.rollupOptions of the returned object when outcome = "build"
  scanned,    \* the directory that call handed to readdir, if any
  htmlFiles,  \* what filterHtmlFiles returned in that call
  formatterCalls,  \* arguments of the entryNameFormatter calls of that call
  console,    \* console calls of that call
  seenState,  \* what that call found the directory to be: "missing" (access
              \* rejected), "unreadable" (readdir rejected), "listed"; the
              \* state of the directory htmlRoot resolves to for a call that
              \* validateHtmlRoot rejected
  seenFiles   \* the listing readdir gave that call

\* what the call that settled last left behind
last == <<config, outcome, error, entries, returned, scanned, htmlFiles,
          formatterCalls, console, seenState, seenFiles>>

vars == <<options, userRoot, lastIndex, dirs, cwdGone, cwdCached, changes, calls,
          pending, settled, last>>

NoObject == [k \in {} |-> Opaque(1)]
NotScanned == [path |-> <<>>, done |-> FALSE]
NoConfig == [root |-> NoPath, rollupOptions |-> [set |-> FALSE, obj |-> NoObject]]

\* const { exclude = [], entryNameFormatter, htmlRoot, verbose = false } =
\* options: the names the plugin reads from its options object
Destructure(o) ==
  [exclude |-> o.exclude, verbose |-> o.verbose,
   entryNameFormatter |-> o.entryNameFormatter, htmlRoot |-> o.htmlRoot]

\* The options object may also carry the option names of version 1,
\* formatEntryName and rootFolder.
AllOptions ==
  [exclude : ExcludeLists, verbose : BOOLEAN,
   entryNameFormatter : Formatters, htmlRoot : HtmlRoots,
   formatEntryName : Formatters,
   rootFolder : HtmlRoots]

\* options that vary htmlRoot only
PathOptions ==
  [exclude : {<<>>}, verbose : {FALSE},
   entryNameFormatter : {"undefined"}, htmlRoot : HtmlRoots,
   formatEntryName : {"undefined"},
   rootFolder : {NoPath}]

\* options that vary exclude only
ExcludeOptions ==
  [exclude : ExcludeLists, verbose : {FALSE},
   entryNameFormatter : {"undefined"}, htmlRoot : {NoPath},
   formatEntryName : {"undefined"},
   rootFolder : {NoPath}]

\* options that vary entryNameFormatter and verbose
FormatOptions ==
  [exclude : {<<>>}, verbose : BOOLEAN,
   entryNameFormatter : Formatters, htmlRoot : {NoPath},
   formatEntryName : {"undefined"},
   rootFolder : {NoPath}]

\* options given under the names of version 1 or under the current names
LegacyOptions ==
  [exclude : {<<>>}, verbose : {FALSE},
   entryNameFormatter : {"undefined"},
   htmlRoot : {NoPath}, formatEntryName : {"undefined", "prefix", "constant"},
   rootFolder : {NoPath, RelPath(<<<<"s">>>>)}]
  \cup
  [exclude : {<<>>}, verbose : {FALSE},
   entryNameFormatter : {"undefined", "prefix", "constant"},
   htmlRoot : {NoPath, RelPath(<<<<"s">>>>)}, formatEntryName : {"undefined"},
   rootFolder : {NoPath}]

\* directory p is root or lies below it
IsInside(root, p) == Len(root) <= Len(p) /\ SubSeq(p, 1, Len(root)) = root

\* the directory the htmlRoot of options o resolves to in a project with
\* config.root r, if it lies inside the project root: the directory config()
\* can be made to scan
ScanDirs(o, r) ==
  LET projectRoot == IF r.set THEN r.segs ELSE Cwd
  IN {d \in {PathResolve(projectRoot, Destructure(o).htmlRoot)} :
        IsInside(projectRoot, d)}

\* The file system of the model: the directory config() can scan and the
\* working directory.
Dirs(o, r) == ScanDirs(o, r) \cup {Cwd}

MissingDir == [files |-> <<>>, state |-> "missing"]
EmptyDir == [files |-> <<>>, state |-> "listed"]

\* viteMultiPageHtmlGeneratorPlugin(options): the plugin closes over the
\* options; nothing has been called, the working directory exists and is
\* empty, no other directory exists yet, and other code may have called
\* process.cwd()
InitWith(optionSet) ==
  /\ options \in optionSet
  /\ userRoot \in ConfigRoots
  /\ lastIndex = [i \in 1..Len(options.exclude) |-> 0]
  /\ dirs = [d \in Dirs(options, userRoot) |->
              IF d = Cwd THEN EmptyDir ELSE MissingDir]
  /\ cwdGone = FALSE
  /\ cwdCached \in BOOLEAN
  /\ changes = 0
  /\ calls = 0
  /\ pending = EmptyBag
  /\ settled = 0
  /\ config = NoConfig
  /\ outcome = "idle"
  /\ error = ""
  /\ entries = <<>>
  /\ returned = NoObject
  /\ scanned = NotScanned
  /\ htmlFiles = <<>>
  /\ formatterCalls = <<>>
  /\ console = <<>>
  /\ seenState = "none"
  /\ seenFiles = <<>>

Init == InitWith(PathOptions \cup ExcludeOptions \cup FormatOptions)
InitPath == InitWith(PathOptions)
InitExclude == InitWith(ExcludeOptions)
InitFormat == InitWith(FormatOptions)
InitLegacy == InitWith(LegacyOptions)

\* the state in which a system call finds the directory path; what lies
\* outside the project roots is not part of the model
DirStateAt(path) ==
  IF path \in DOMAIN dirs THEN dirs[path].state ELSE "none"

\* the number of files in the directories of the model
FileCount ==
  Cardinality({x \in (DOMAIN dirs) \X (1..MaxFiles) : x[2] <= Len(dirs[x[1]].files)})

\* a change of the file system; those made after the first config() call
\* are counted
fileSystemChanges ==
  /\ calls = 0 \/ changes < MaxChanges
  /\ changes' = IF calls = 0 THEN changes ELSE changes + 1

\* mkdir(dir, {recursive: true}): the directory comes into existence,
\* empty, and so does every directory above it that is missing
Mkdir(dir) ==
  /\ fileSystemChanges
  /\ dirs[dir].state = "missing"
  /\ dirs' = [d \in DOMAIN dirs |->
               IF IsInside(d, dir) /\ dirs[d].state = "missing" THEN EmptyDir
               ELSE dirs[d]]
  /\ UNCHANGED <<options, userRoot, lastIndex, cwdGone, cwdCached, calls, pending,
                 settled, last>>

\* writeFile(resolve(dir, name)): a new name appears in the listing of a
\* directory config() can scan, at whatever position readdir gives it
WriteFile(dir, name, pos) ==
  /\ fileSystemChanges
  /\ dir \in ScanDirs(options, userRoot)
  /\ dirs[dir].state = "listed"
  /\ FileCount < MaxFiles
  /\ pos <= Len(dirs[dir].files)
  /\ \A i \in 1..Len(dirs[dir].files) : dirs[dir].files[i] # name
  /\ dirs' = [dirs EXCEPT ![dir].files =
               SubSeq(@, 1, pos) \o <<name>> \o SubSeq(@, pos + 1, Len(@))]
  /\ UNCHANGED <<options, userRoot, lastIndex, cwdGone, cwdCached, calls, pending,
                 settled, last>>

\* a directory config() can scan stays accessible but can no longer be
\* listed
Protect(dir) ==
  /\ fileSystemChanges
  /\ dir \in ScanDirs(options, userRoot)
  /\ dirs[dir].state = "listed"
  /\ dirs' = [dirs EXCEPT ![dir] = [files |-> <<>>, state |-> "unreadable"]]
  /\ UNCHANGED <<options, userRoot, lastIndex, cwdGone, cwdCached, calls, pending,
                 settled, last>>

\* rm(dir, {recursive: true}): the directory is removed with everything
\* below it; a process working in it or below it has lost its working
\* directory, also when the path is created again
Rmdir(dir) ==
  /\ fileSystemChanges
  /\ dirs[dir].state # "missing"
  /\ dirs' = [d \in DOMAIN dirs |-> IF IsInside(dir, d) THEN MissingDir ELSE dirs[d]]
  /\ cwdGone' = (cwdGone \/ IsInside(dir, Cwd))
  /\ UNCHANGED <<options, userRoot, lastIndex, cwdCached, calls, pending, settled,
                 last>>

\* log without its test of verbose
logAlways(verbose, line) == <<line>>

\* log(message): console.log when verbose
log(verbose, line) == IF verbose THEN <<line>> ELSE <<>>

\* Object.keys(entries)
ObjectKeys(obj) == [i \in 1..Len(obj) |-> obj[i].name]

\* the merge without the spread of the caller's rollupOptions
MergeRollupOptionsInputOnly(rollupOptions, found) ==
  [k \in {"input"} |-> Mapping(found)]

\* { ...config.build?.rollupOptions, input: entries }
MergeRollupOptions(rollupOptions, found) ==
  LET spread == IF rollupOptions.set THEN rollupOptions.obj ELSE NoObject
  IN [k \in (DOMAIN spread) \cup {"input"} |->
        IF k = "input" THEN Mapping(found) ELSE spread[k]]

\* the message of the error process.cwd() throws when the working directory
\* no longer exists
CwdError == "ENOENT: no such file or directory, uv_cwd"

\* process.cwd(): Node answers from its cache if it has one and asks the
\* operating system otherwise, which fails once the directory the process
\* works in has been removed
processCwd == [threw |-> ~cwdCached /\ cwdGone, path |-> Cwd]

\* getRoot(config): threw tells that process.cwd() or validateHtmlRoot threw,
\* error is the message; process.cwd() is called only when config.root is
\* falsy
getRoot(cfg) ==
  IF ~cfg.root.set /\ processCwd.threw
  THEN [threw |-> TRUE, path |-> <<>>, error |-> CwdError]
  ELSE LET projectRoot == IF cfg.root.set THEN cfg.root.segs ELSE processCwd.path
           v == validateHtmlRoot(Destructure(options).htmlRoot, projectRoot)
       IN [threw |-> v.threw, path |-> v.path,
           error |-> IF v.threw THEN SecurityError ELSE ""]

\* the test with only its !entries half
IsEmptyResultNullOnly(isNull, obj) == isNull

\* !entries || Object.keys(entries).length === 0
IsEmptyResult(isNull, obj) == isNull \/ Len(ObjectKeys(obj)) = 0

\* config() rejects: getRoot threw err; state is the state of the directory
\* htmlRoot resolves to
configRejects(cfg, err, state) ==
  /\ config' = cfg
  /\ outcome' = "rejected"
  /\ error' = err
  /\ entries' = <<>>
  /\ returned' = NoObject
  /\ scanned' = NotScanned
  /\ htmlFiles' = <<>>
  /\ formatterCalls' = <<>>
  /\ console' = <<>>
  /\ seenState' = state
  /\ seenFiles' = <<>>
  /\ settled' = settled + 1

\* config(), from line 111 on: d is what discoverHtmlFiles returned for the
\* directory root, found in state state with listing files
configWithEntries(cfg, root, state, files, d) ==
  /\ config' = cfg
  /\ lastIndex' = d.li
  /\ error' = ""
  /\ entries' = d.entries
  /\ scanned' = [path |-> IF d.scanned THEN root ELSE <<>>,
                 done |-> d.scanned]
  /\ htmlFiles' = d.htmlFiles
  /\ formatterCalls' = d.fcalls
  /\ seenState' = state
  /\ seenFiles' = files
  /\ settled' = settled + 1
  /\ IF IsEmptyResult(d.isNull, d.entries)
     THEN /\ outcome' = "empty"
          /\ returned' = NoObject
          /\ console' = d.logs \o
               log(Destructure(options).verbose,
                   LogLine("log", "No HTML entries found", <<>>, <<>>, <<>>))
     ELSE /\ outcome' = "build"
          /\ returned' = MergeRollupOptions(cfg.rollupOptions, d.entries)
          /\ console' = d.logs \o
               log(Destructure(options).verbose,
                   LogLine("log", "Found HTML entries", <<>>, <<>>,
                           ObjectKeys(d.entries)))

\* config() after the await of discoverHtmlFiles, which found the directory
\* root in state state with listing files
configResolves(cfg, root, state, files) ==
  configWithEntries(cfg, root, state, files,
    discoverHtmlFiles(root, Destructure(options).exclude,
                      Destructure(options).entryNameFormatter,
                      Destructure(options).verbose, state, files, lastIndex))

\* config(), from line 109 on: root is what getRoot returned, or its throw;
\* the call asks for access(root) and waits
configWithRoot(cfg, root) ==
  IF root.threw
  THEN /\ configRejects(cfg, root.error,
                        IF root.error = CwdError THEN "none"
                        ELSE DirStateAt(root.path))
       /\ UNCHANGED <<lastIndex, pending>>
  ELSE /\ pending' = pending (+) SetToBag({[files |-> <<>>, root |-> root.path,
                                            cfg |-> cfg, pc |-> "access",
                                            seen |-> "none"]})
       /\ UNCHANGED <<lastIndex, settled, last>>

\* plugin.config(cfg) is called: it runs up to its first await
Config(cfg) ==
  /\ calls < MaxCalls
  /\ cfg.root = userRoot
  /\ calls' = calls + 1
  /\ cwdCached' = (cwdCached \/ (~cfg.root.set /\ ~processCwd.threw))
  /\ configWithRoot(cfg, getRoot(cfg))
  /\ UNCHANGED <<options, userRoot, dirs, cwdGone, changes>>

\* call c of the bag goes on as call d
Continues(c, d) == pending' = (pending (-) SetToBag({c})) (+) SetToBag({d})

\* call c of the bag has settled
Settles(c) == pending' = pending (-) SetToBag({c})

\* a thread of the pool makes the access(root) system call of call c and
\* holds its result
accessCall(c) ==
  /\ c.pc = "access"
  /\ Continues(c, [c EXCEPT !.pc = "accessed",
                            !.seen = IF DirStateAt(c.root) = "missing"
                                     THEN "missing" ELSE "exists"])
  /\ UNCHANGED <<options, userRoot, lastIndex, dirs, cwdGone, cwdCached, changes,
                 calls, settled, last>>

\* the result of access(root) reaches call c (validateRoot): the call asks
\* for readdir(root), or warns and resolves to {}
Access(c) ==
  /\ c.pc = "accessed"
  /\ IF validateRoot(c.root, c.seen).valid
     THEN /\ Continues(c, [c EXCEPT !.pc = "readdir"])
          /\ UNCHANGED <<lastIndex, settled, last>>
     ELSE /\ configResolves(c.cfg, c.root, "missing", <<>>)
          /\ Settles(c)
  /\ UNCHANGED <<options, userRoot, dirs, cwdGone, cwdCached, changes, calls>>

\* a thread of the pool makes the readdir(root) system call of call c and
\* holds its result: the listing, or the failure
readdirCall(c) ==
  /\ c.pc = "readdir"
  /\ Continues(c, [c EXCEPT !.pc = "read",
                            !.seen = IF DirStateAt(c.root) = "listed"
                                     THEN "listed" ELSE "unreadable",
                            !.files = IF DirStateAt(c.root) = "listed"
                                      THEN dirs[c.root].files ELSE <<>>])
  /\ UNCHANGED <<options, userRoot, lastIndex, dirs, cwdGone, cwdCached, changes,
                 calls, settled, last>>

\* the result of readdir(root) reaches call c (readDirectoryFiles): the
\* call runs to its end with the listing, or with [] when readdir rejected
Readdir(c) ==
  /\ c.pc = "read"
  /\ configResolves(c.cfg, c.root, c.seen, c.files)
  /\ Settles(c)
  /\ UNCHANGED <<options, userRoot, dirs, cwdGone, cwdCached, changes, calls>>

\* the config objects the hook is called with: {}, {root: '/p', build:
\* {rollupOptions: {output}}} and {root: '/p', build: {rollupOptions:
\* {input, output}}}
Configs ==
  { cfg \in [root : ConfigRoots, rollupOptions : RollupOptionsValues] :
      cfg.root.set = cfg.rollupOptions.set }

Next ==
  \/ \E dir \in DOMAIN dirs : Mkdir(dir)
  \/ \E dir \in DOMAIN dirs, name \in FileNames, pos \in 0..MaxFiles :
       WriteFile(dir, name, pos)
  \/ \E dir \in DOMAIN dirs : Protect(dir)
  \/ \E dir \in DOMAIN dirs : Rmdir(dir)
  \/ \E cfg \in Configs : Config(cfg)
  \/ \E c \in BagToSet(pending) : accessCall(c)
  \/ \E c \in BagToSet(pending) : Access(c)
  \/ \E c \in BagToSet(pending) : readdirCall(c)
  \/ \E c \in BagToSet(pending) : Readdir(c)

Spec == Init /\ [][Next]_vars
SpecPath == InitPath /\ [][Next]_vars
SpecExclude == InitExclude /\ [][Next]_vars
SpecFormat == InitFormat /\ [][Next]_vars
SpecLegacy == InitLegacy /\ [][Next]_vars

(***************************************************************************)
(* Properties of the config() hook.                                        *)
(***************************************************************************)
\* a config() call has settled; the properties speak of the call that
\* settled last
Called == settled > 0

\* config.root || process.cwd() of the last call
ProjectRoot == IF config.root.set THEN config.root.segs ELSE Cwd

\* the directory htmlRoot names, resolved against the project root
ResolvedRoot == PathResolve(ProjectRoot, options.htmlRoot)

\* the names of a sequence of strings
Range(q) == {q[i] : i \in 1..Len(q)}

\* process.cwd() threw in the last call: the call had no project root
NoProjectRoot == outcome = "rejected" /\ error = CwdError

\* the directory getRoot returned in the last call
LastRoot == validateHtmlRoot(Destructure(options).htmlRoot, ProjectRoot).path

\* the last call was given a non-empty htmlRoot and had a project root to
\* resolve it against
HtmlRootGiven == Called /\ ~NoProjectRoot /\ ~IsFalsyPath(options.htmlRoot)

\* C1: whenever htmlRoot resolves, against the project root, to a directory
\* outside the project root, config() rejects with the Security error and
\* returns no build configuration.
C1_TraversalRejected ==
  (HtmlRootGiven /\ ~IsInside(ProjectRoot, ResolvedRoot))
    => /\ outcome = "rejected"
       /\ error = SecurityError
       /\ returned = NoObject
       /\ ~scanned.done

\* htmlRoot '../x' under root '/p' was rejected
C1_Witness ==
  /\ Called
  /\ options.htmlRoot = RelPath(<<DotDot, <<"x">>>>)
  /\ config.root.set
  /\ outcome = "rejected"

\* C2: whenever htmlRoot is an absolute path, config() rejects with the
\* Security error, whatever the project root is.
C2_AbsoluteRejected ==
  (HtmlRootGiven /\ options.htmlRoot.abs)
    => (outcome = "rejected" /\ error = SecurityError)

\* C3: whenever htmlRoot resolves to an existing directory inside the project
\* root, whatever its segments are called, config() does not raise the
\* Security error, and it scans exactly that directory.
C3_InsideAllowed ==
  (HtmlRootGiven /\ seenState # "missing" /\ IsInside(ProjectRoot, ResolvedRoot))
    => /\ outcome # "rejected"
       /\ error = ""
       /\ scanned = [path |-> ResolvedRoot, done |-> TRUE]

\* C4: when config() finds at least one entry, the returned rollupOptions
\* holds every key of the caller's rollupOptions other than 'input' with its
\* value unchanged, plus 'input' set to the entry mapping, and nothing else.
C4_OtherKeysKept ==
  outcome = "build"
    => LET theirs == IF config.rollupOptions.set
                     THEN DOMAIN config.rollupOptions.obj ELSE {}
       IN /\ DOMAIN returned = theirs \cup {"input"}
          /\ \A k \in theirs \ {"input"} : returned[k] = config.rollupOptions.obj[k]
          /\ returned["input"] = Mapping(entries)
          /\ Len(entries) > 0

\* a build configuration was returned to a caller whose rollupOptions has
\* an output key
C4_Witness ==
  /\ outcome = "build"
  /\ config.rollupOptions.set
  /\ "output" \in DOMAIN config.rollupOptions.obj
  /\ returned["output"] = Opaque(1)

\* C5: when the caller's config defines build.rollupOptions.input entries,
\* the input config() returns holds those entries together with the
\* discovered ones.
C5_InputMerged ==
  (/\ outcome = "build"
   /\ config.rollupOptions.set
   /\ "input" \in DOMAIN config.rollupOptions.obj)
    => /\ Range(config.rollupOptions.obj["input"].entries)
            \subseteq Range(returned["input"].entries)
       /\ Range(entries) \subseteq Range(returned["input"].entries)

\* the last call read the listing with the default exclude and formatter
DefaultScan ==
  /\ Called
  /\ outcome # "rejected"
  /\ seenState = "listed"
  /\ options.exclude = <<>>
  /\ options.entryNameFormatter = "undefined"

\* the listed names that end with '.html' and do not start with '.'
VisibleHtml == {f \in Range(seenFiles) : EndsWith(f, DotHtml) /\ f[1] # "."}

\* C6: with no exclude patterns and no formatter, the mapping has exactly
\* one entry per listed name that ends with '.html' and does not start with
\* '.', keyed by the name without '.html'; as many entries as such names.
C6_AllHtmlFound ==
  DefaultScan
    => /\ Len(entries) = Cardinality(VisibleHtml)
       /\ \A f \in VisibleHtml :
            \E i \in 1..Len(entries) :
              /\ entries[i].name \o DotHtml = f
              /\ entries[i].path = Append(scanned.path, f)
              /\ \A j \in 1..Len(entries) : entries[j].name = entries[i].name => j = i

\* C7: for every listing, exclude list and formatter, no listed name that
\* starts with '.' contributes an entry to the returned mapping.
C7_HiddenIgnored ==
  Called
    => \A f \in Range(seenFiles) :
         f[1] = "."
           => /\ \A i \in 1..Len(entries) : entries[i].path[Len(entries[i].path)] # f
              /\ f \notin Range(htmlFiles)
              /\ outcome = "build"
                   => \A i \in 1..Len(returned["input"].entries) :
                        LET e == returned["input"].entries[i]
                        IN e.path[Len(e.path)] # f

\* a build configuration was returned for a listing that holds '.a.html'
C7_Witness ==
  /\ outcome = "build"
  /\ <<".", "a">> \o DotHtml \in Range(seenFiles)

\* every pattern of the exclude option is a string
StringsOnly == \A k \in 1..Len(options.exclude) : ~options.exclude[k].isRegExp

\* C8: a file is excluded by a string pattern p if and only if its full name
\* equals p or its name without the trailing '.html' equals p; a pattern that
\* is only a substring of the name does not exclude it.
C8_StringExclusionExact ==
  (Called /\ seenState = "listed" /\ StringsOnly)
    => \A f \in VisibleHtml :
         f \notin Range(htmlFiles)
           <=> \E k \in 1..Len(options.exclude) :
                 \/ f = options.exclude[k].text
                 \/ f = options.exclude[k].text \o DotHtml

\* exclude: ['a'] removed 'a.html' and kept 'ab.html'
C8_Witness ==
  /\ Called
  /\ options.exclude = <<StringPattern(<<"a">>)>>
  /\ Range(seenFiles) = {<<"a">> \o DotHtml, <<"a", "b">> \o DotHtml}
  /\ htmlFiles = << <<"a", "b">> \o DotHtml >>

\* C9: for every RegExp of the exclude list, with any flags, no listed file
\* whose name matches it appears in the returned mapping.
C9_RegExpExcluded ==
  (Called /\ seenState = "listed")
    => \A k \in 1..Len(options.exclude) :
         options.exclude[k].isRegExp
           => \A f \in Range(seenFiles) :
                RegExpTest(options.exclude[k], f, 0).res
                  => \A i \in 1..Len(entries) :
                       entries[i].path[Len(entries[i].path)] # f

\* the files of the last call that come before f in sorted order and for
\* which the formatter returned the string str
EarlierWithName(f, str) ==
  {g \in Range(htmlFiles) :
     /\ StrLess(g, f)
     /\ ApplyFormatter(options.entryNameFormatter, StripHtml(g), g) =
          [str |-> str, kind |-> "string"]}

\* C10: when the formatter returns a string for a file and no earlier file
\* produced the same name, the mapping holds that file's path under exactly
\* the returned string, and not under the unformatted base name.
C10_FormatterNames ==
  (Called /\ seenState = "listed" /\ IsFunction(options.entryNameFormatter))
    => \A f \in Range(htmlFiles) :
         LET r == ApplyFormatter(options.entryNameFormatter, StripHtml(f), f)
             path == Append(scanned.path, f)
         IN (r.kind = "string" /\ EarlierWithName(f, r.str) = {})
              => /\ [path |-> path, name |-> r.str] \in Range(entries)
                 /\ \A i \in 1..Len(entries) :
                      entries[i].path = path => entries[i].name = r.str

\* the result of entryNameFormatter for file f of the last call
Formatted(f) == ApplyFormatter(options.entryNameFormatter, StripHtml(f), f)

\* the console calls of the last call
ConsoleLines == Range(console)

\* C11: if entryNameFormatter returns a non-string for some file, that file
\* gets no entry and a 'must return a string' warning is emitted, while every
\* other qualifying file still gets its entry and config() does not fail.
C11_NonStringSkipsOnlyThatFile ==
  (/\ Called /\ seenState = "listed" /\ IsFunction(options.entryNameFormatter)
   /\ \E g \in Range(htmlFiles) : Formatted(g).kind # "string")
    => /\ outcome # "rejected"
       /\ \A f \in Range(htmlFiles) :
            IF Formatted(f).kind # "string"
            THEN /\ \A i \in 1..Len(entries) : entries[i].path # Append(scanned.path, f)
                 /\ \E l \in ConsoleLines :
                      /\ l.level = "warn"
                      /\ l.msg = "entryNameFormatter must return a string"
                      /\ l.file = f
            ELSE EarlierWithName(f, Formatted(f).str) = {}
                   => [path |-> Append(scanned.path, f), name |-> Formatted(f).str]
                        \in Range(entries)

\* the entry name file f derives in the last call, as [kind, str]
Derived(f) ==
  IF IsFunction(options.entryNameFormatter) THEN Formatted(f)
  ELSE [str |-> StripHtml(f), kind |-> "string"]

\* the qualifying files of the last call that derive the same name as f
SameName(f) ==
  {g \in Range(htmlFiles) : Derived(g) = Derived(f) /\ Derived(f).kind = "string"}

\* C12: when several qualifying files derive the same entry name, the mapping
\* holds exactly one entry for that name, its value is the path of the first
\* of those files in ascending sorted order, and each later file is skipped
\* with a 'Duplicate entry name' warning.
C12_FirstOfDuplicatesWins ==
  (Called /\ seenState = "listed")
    => \A f \in Range(htmlFiles) :
         Cardinality(SameName(f)) > 1
           => LET first == CHOOSE g \in SameName(f) :
                             \A h \in SameName(f) \ {g} : StrLess(g, h)
              IN /\ Cardinality({i \in 1..Len(entries) :
                                   entries[i].name = Derived(f).str}) = 1
                 /\ [path |-> Append(scanned.path, first), name |-> Derived(f).str]
                      \in Range(entries)
                 /\ \A g \in SameName(f) \ {first} :
                      \E l \in ConsoleLines :
                        /\ l.level = "warn"
                        /\ l.msg = "Duplicate entry name"
                        /\ l.file = g

\* C13: whenever the scan yields no entry (directory empty, no '.html' name,
\* every HTML file hidden or excluded, or every file skipped during name
\* mapping), config() returns exactly {} with no build key.
C13_EmptyResultEmptyConfig ==
  (Called /\ outcome # "rejected")
    => /\ (entries = <<>>) <=> (outcome = "empty")
       /\ outcome = "empty" => returned = NoObject
       /\ (seenState # "listed" \/ VisibleHtml = {} \/ htmlFiles = <<>>)
            => outcome = "empty"

\* every qualifying file was skipped during name mapping and {} was returned
C13_Witness ==
  /\ Called
  /\ htmlFiles # <<>>
  /\ entries = <<>>
  /\ outcome = "empty"
  /\ returned = NoObject

\* C14: when htmlRoot resolves inside the project root but the directory does
\* not exist or cannot be read, config() resolves to {} instead of rejecting.
C14_MissingDirectoryTolerated ==
  (HtmlRootGiven /\ IsInside(ProjectRoot, ResolvedRoot) /\ seenState # "listed")
    => (outcome = "empty" /\ error = "" /\ returned = NoObject)

\* C15: when htmlRoot is absent or empty, the scanned directory is
\* config.root, or the working directory when config.root is absent too, and
\* config() resolves without error.
C15_DefaultScanRoot ==
  (Called /\ IsFalsyPath(options.htmlRoot))
    => /\ outcome # "rejected"
       /\ error = ""
       /\ seenState # "missing"
            => scanned = [path |-> IF config.root.set THEN config.root.segs ELSE Cwd,
                          done |-> TRUE]

\* the plugin was created with no options
NoOptions ==
  /\ options.exclude = <<>>
  /\ options.entryNameFormatter = "undefined"
  /\ options.formatEntryName = "undefined"
  /\ options.htmlRoot = NoPath
  /\ options.rootFolder = NoPath
  /\ ~options.verbose

\* C16: a plugin created with no options logs, on each config() call, 'Found
\* N HTML entries' followed by the entry names when N >= 1 entries were
\* found, and 'No HTML entries found' when none were found.
C16_DefaultLogging ==
  (Called /\ NoOptions)
    => /\ outcome = "build"
            => LogLine("log", "Found HTML entries", <<>>, <<>>, ObjectKeys(entries))
                 \in ConsoleLines
       /\ outcome = "empty"
            => LogLine("log", "No HTML entries found", <<>>, <<>>, <<>>)
                 \in ConsoleLines

\* C17: entryNameFormatter is called once per qualifying file with (name,
\* file): name the file name without '.html', file the path of the HTML file.
C17_FormatterArguments ==
  (Called /\ seenState = "listed" /\ IsFunction(options.entryNameFormatter))
    => /\ Len(formatterCalls) = Len(htmlFiles)
       /\ \A f \in Range(htmlFiles) :
            [file |-> Append(scanned.path, f), name |-> StripHtml(f)]
              \in Range(formatterCalls)

\* the options with the names of version 1 replaced by the current names
Renamed(o) ==
  [exclude |-> o.exclude, verbose |-> o.verbose,
   entryNameFormatter |-> o.formatEntryName, htmlRoot |-> o.rootFolder]

\* C18: formatEntryName is honoured like entryNameFormatter and rootFolder
\* like htmlRoot: a plugin configured through the old names produces the
\* entry mapping of the plugin configured through the new names.
C18_OldNamesHonoured ==
  (/\ Called
   /\ ~NoProjectRoot
   /\ options.entryNameFormatter = "undefined"
   /\ options.htmlRoot = NoPath)
    => LET o == Renamed(options)
           root == validateHtmlRoot(o.htmlRoot, ProjectRoot)
       IN ~root.threw
            => entries = discoverHtmlFiles(root.path, o.exclude, o.entryNameFormatter,
                                           o.verbose, seenState, seenFiles,
                                           [i \in 1..Len(o.exclude) |-> 0]).entries

\* the orders in which readdir may return the names of listing q
Orderings(q) ==
  {p \in [1..Len(q) -> Range(q)] : \A i, j \in 1..Len(q) : p[i] = p[j] => i = j}

\* C19: for any two listings that are permutations of each other, with the
\* same options and formatter, config() returns the same entry mapping: a
\* call returns what it would return for every other order of the listing.
C19_ListingOrderIrrelevant ==
  [][(settled' = settled + 1 /\ outcome' # "rejected")
       => \A p \in Orderings(seenFiles') :
            discoverHtmlFiles(LastRoot', Destructure(options).exclude,
                              Destructure(options).entryNameFormatter,
                              Destructure(options).verbose,
                              seenState', p, lastIndex).entries = entries']_vars

\* C20: calling config() again on the same plugin instance with the same
\* options, the same config and an unchanged directory returns an equal
\* entry mapping.
C20_RepeatedCallsAgree ==
  [][(/\ settled >= 1
      /\ settled' = settled + 1
      /\ config' = config
      /\ seenState' = seenState
      /\ seenFiles' = seenFiles)
       => (entries' = entries /\ outcome' = outcome)]_vars

\* at least one pattern of the exclude option matches name f
Matches(f) ==
  \E k \in 1..Len(options.exclude) : PatternHits(options.exclude[k], f, 0).res

\* C21: in every mapping config() returns, each key is a string, each value
\* is the absolute path resolve(root, f) of some listed name f that ends with
\* '.html', does not start with '.' and is not excluded, and no file appears
\* under two different keys.
C21_EntryMappingInvariant ==
  (Called /\ outcome = "build")
    => LET input == returned["input"].entries
       IN /\ \A i \in 1..Len(input) :
               \E f \in VisibleHtml :
                 /\ input[i].path = Append(scanned.path, f)
                 /\ IsFunction(options.entryNameFormatter)
                      => Formatted(f) = [str |-> input[i].name, kind |-> "string"]
                 /\ ~Matches(f)
          /\ \A i, j \in 1..Len(input) :
               input[i].path = input[j].path => i = j

\* C22: a file is excluded if and only if at least one pattern of the
\* exclude list matches it, so every permutation of the exclude list yields
\* the entry mapping the plugin returned for the same directory.
C22_ExcludeOrderIrrelevant ==
  (settled = 1 /\ outcome # "rejected")
    => /\ seenState = "listed"
            => \A f \in VisibleHtml : f \notin Range(htmlFiles) <=> Matches(f)
       /\ \A p \in Orderings(options.exclude) :
            discoverHtmlFiles(LastRoot, p,
                              Destructure(options).entryNameFormatter,
                              Destructure(options).verbose, seenState, seenFiles,
                              [i \in 1..Len(p) |-> 0]).entries = entries

\* a console call that is a warning or an error
NotInformational(l) == l.level # "log"

\* C23: when verbose is absent or false config() makes no console.log call
\* (no 'Found ...' summary, no per-entry line, no 'No HTML entries found');
\* the warnings and errors are those of the opposite verbose setting, and so
\* is the returned configuration.
C23_VerboseGating ==
  (settled = 1 /\ outcome # "rejected")
    => LET d == discoverHtmlFiles(LastRoot, Destructure(options).exclude,
                                  Destructure(options).entryNameFormatter,
                                  ~Destructure(options).verbose, seenState, seenFiles,
                                  [i \in 1..Len(options.exclude) |-> 0])
       IN /\ ~options.verbose => \A l \in ConsoleLines : l.level # "log"
          /\ SelectSeq(console, NotInformational) =
               SelectSeq(d.logs, NotInformational)
          /\ d.entries = entries
          /\ IsEmptyResult(d.isNull, d.entries) <=> outcome = "empty"
          /\ returned = IF IsEmptyResult(d.isNull, d.entries) THEN NoObject
                        ELSE MergeRollupOptions(config.rollupOptions, d.entries)

\* with verbose false a build configuration was returned and a warning was
\* emitted
C23_Witness ==
  /\ settled = 1
  /\ ~options.verbose
  /\ outcome = "build"
  /\ \E l \in ConsoleLines : l.level = "warn"

====
